---- MODULE Spec2Model ----
(***************************************************************************)
(* A model of the wait-free-arena crate: the atomic bump cursor of         *)
(* ArenaAllocator (src/src/allocator.rs), its best-effort tail             *)
(* reclamation, the zero-filling and value-placing wrappers of             *)
(* ArenaAllocatorImpl, and Box::new_in (src/src/boxed.rs).                 *)
(*                                                                         *)
(* Every atomic access of next_free (a load or a compare_exchange) is one  *)
(* step of the calling thread; the code between two accesses is local to   *)
(* the thread and belongs to the step of the access that precedes it.      *)
(***************************************************************************)
EXTENDS Integers, Sequences, FiniteSets, TLC

\* ------------------------------------------------------------------ bounds
NThreads == 2
MaxCap == 3
MaxSize == 1
MaxCalls == 4
MaxByte == 1
MaxFixedSize == 2
MaxHeld == 1
SeqCalls == 6
MemCalls == 3
MaxSeqSize == 2
MaxLen == 1
BoxCalls == 4
AnyCalls == 4
RetryFactor == 2
AnyParCalls == 3
MaxRanges == 3

Threads == 1..NThreads
Sizes == 0..MaxSize
Bytes == 0..MaxByte

\* The address of the first byte of the backing storage (Buffer::as_ptr).
BaseAddr == 16

VARIABLES
    length,     \* self.buf.len(): fixed when the arena is built
    next_free,  \* self.next_free: the atomic cursor
    mem,        \* the bytes of the backing storage, offset -> byte
    pc,         \* where each thread stands in the call it is making
    frame,      \* the locals of the call each thread is making
    res,        \* what the last call of each thread returned
    held,       \* the ranges each caller was issued and has not passed to dealloc
    stats,      \* per thread: calls started, successful and OOM allocations
    plan        \* what the callers were launched to do: calls each, fixed size;
                \* and how many failed attempts of a call are counted

vars == <<length, next_free, mem, pc, frame, res, held, stats, plan>>

\* What no call ever changes.
fixed == <<length, plan>>

\* ----------------------------------------------------------------- helpers
Min(a, b) == IF a < b THEN a ELSE b

\* base_ptr.add(off): the address of the byte at offset off.
PtrAdd(off) == BaseAddr + off

\* The offset of an address handed out by the arena.
OffsetOf(ptr) == ptr - BaseAddr

\* The bytes of the range [off, off + size).
RangeBytes(off, size) == off..(off + size - 1)

\* NonNull::new: refuses the null address only.
NonNullNew(ptr) == IF ptr = 0 THEN "invalid" ELSE "ok"

NoVal == <<>>
NoFrame == [op |-> "none", size |-> 0, align |-> 1, cur |-> 0, ptr |-> 0,
            val |-> NoVal, id |-> 0, tries |-> 0]
NoRes == [op |-> "none", kind |-> "none", ptr |-> 0, size |-> 0, cur |-> 0,
          cas |-> "none", val |-> NoVal, id |-> 0]
NoStats == [calls |-> 0, ok |-> 0, oom |-> 0]

\* Where the failed compare-and-swap attempts of a call are counted, they
\* are counted up to MaxTries: more than RetryFactor per competing thread.
MaxTries == RetryFactor * (NThreads - 1) + 1

\* A counter of the bookkeeping, kept within the calls the plan allows.
Bump(n) == Min(n + 1, plan.calls)

\* --------------------------------------------------------------- new_in
\* ArenaAllocator::new_in: the cursor starts at 0; StackBuf::new and
\* HeapBuf::new default-initialise every byte (u8::default() = 0).
ArenaNew(cap) ==
    /\ length = cap
    /\ next_free = 0
    /\ mem = [o \in 0..(cap - 1) |-> 0]

Idle ==
    /\ pc = [t \in Threads |-> "idle"]
    /\ frame = [t \in Threads |-> NoFrame]
    /\ res = [t \in Threads |-> NoRes]
    /\ held = [t \in Threads |-> <<>>]
    /\ stats = [t \in Threads |-> NoStats]

\* Callers free to make up to MaxCalls calls in all, of any size.
AnyPlan == [calls |-> MaxCalls, size |-> 0, tries |-> 0]

Init ==
    /\ \E cap \in 0..MaxCap : ArenaNew(cap)
    /\ Idle
    /\ plan = AnyPlan

\* ------------------------------------------------------------ bump_alloc
\* core::alloc::Layout: a size and an alignment.
Layout(size, align) == [size |-> size, align |-> align]

\* A caller enters bump_alloc (directly, or through bump_alloc_zeroed,
\* alloc_val or Box::new_in, which all start by calling it).
Enter(t, op, layout, ptr, val, id) ==
    /\ pc[t] = "idle"
    /\ frame' = [frame EXCEPT ![t] =
                    [op |-> op, size |-> layout.size, align |-> layout.align,
                     cur |-> 0, ptr |-> ptr, val |-> val, id |-> id, tries |-> 0]]
    /\ stats' = [stats EXCEPT ![t].calls = Bump(@)]

bump_alloc_call(t, size) ==
    /\ Enter(t, "bump_alloc", Layout(size, 1), 0, NoVal, 0)
    /\ pc' = [pc EXCEPT ![t] = "load"]
    /\ UNCHANGED <<fixed, next_free, mem, res, held>>

OutOfMemory_loose(size, cur) == size > length - cur + 1

OutOfMemory_strict(size, cur) == size >= length - cur

\* The OOM test of line 44.
OutOfMemory(size, cur) == size > length - cur

\* Lines 43-49: load the cursor; return OOM when the request does not fit.
bump_alloc_load(t) ==
    /\ pc[t] = "load"
    /\ LET cur == next_free
           f == frame[t]
       IN  IF OutOfMemory(f.size, cur)
           THEN /\ pc' = [pc EXCEPT ![t] = "idle"]
                /\ frame' = [frame EXCEPT ![t] = NoFrame]
                /\ res' = [res EXCEPT ![t] =
                              [op |-> f.op, kind |-> "oom", ptr |-> 0, size |-> f.size,
                               cur |-> cur, cas |-> "none", val |-> f.val, id |-> 0]]
                /\ stats' = [stats EXCEPT ![t].oom = Bump(@)]
           ELSE /\ pc' = [pc EXCEPT ![t] = "cas"]
                /\ frame' = [frame EXCEPT ![t].cur = cur]
                /\ UNCHANGED <<res, stats>>
    /\ UNCHANGED <<fixed, next_free, mem, held>>

CompareExchangeOk_store(actual, expected) == TRUE

\* AtomicUsize::compare_exchange succeeds when the cursor still holds the
\* value the caller expects.
CompareExchangeOk(actual, expected) == actual = expected

\* The value the compare_exchange of line 51 writes.
AllocTarget(cur, size) == cur + size

AllocIndex_rounded(current) == current + (current % 2)

\* The offset the issued range starts at (the value the exchange replaced).
AllocIndex(current) == current

\* What the thread does once its range is issued (lines 61-65, then the
\* caller of bump_alloc): a plain bump_alloc returns, the wrappers go on.
AfterIssue(op) ==
    CASE op = "bump_alloc_zeroed" -> "zero"
      [] op = "alloc_val" -> "write"
      [] op = "new_in" -> "write"
      [] OTHER -> "idle"

\* Lines 51-65: one compare_exchange; on failure the loop starts over.
bump_alloc_cas(t) ==
    /\ pc[t] = "cas"
    /\ LET f == frame[t]
           idx == AllocIndex(next_free)
           ptr == PtrAdd(idx)
       IN  IF CompareExchangeOk(next_free, f.cur)
           THEN /\ next_free' = AllocTarget(f.cur, f.size)
                /\ IF NonNullNew(ptr) = "invalid"
                   THEN /\ pc' = [pc EXCEPT ![t] = "idle"]
                        /\ frame' = [frame EXCEPT ![t] = NoFrame]
                        /\ res' = [res EXCEPT ![t] =
                                      [op |-> f.op, kind |-> "invalid", ptr |-> 0,
                                       size |-> f.size, cur |-> f.cur, cas |-> "ok",
                                       val |-> f.val, id |-> 0]]
                        /\ UNCHANGED <<held, stats>>
                   ELSE /\ held' = [held EXCEPT ![t] =
                                       Append(@, [off |-> idx, size |-> f.size,
                                                  id |-> stats[t].ok + 1])]
                        /\ stats' = [stats EXCEPT ![t].ok = Bump(@)]
                        /\ IF AfterIssue(f.op) = "idle"
                           THEN /\ pc' = [pc EXCEPT ![t] = "idle"]
                                /\ frame' = [frame EXCEPT ![t] = NoFrame]
                                /\ res' = [res EXCEPT ![t] =
                                              [op |-> f.op, kind |-> "ok", ptr |-> ptr,
                                               size |-> f.size, cur |-> f.cur,
                                               cas |-> "ok", val |-> f.val,
                                               id |-> stats[t].ok + 1]]
                           ELSE /\ pc' = [pc EXCEPT ![t] = AfterIssue(f.op)]
                                /\ frame' = [frame EXCEPT ![t].ptr = ptr,
                                                          ![t].id = stats[t].ok + 1]
                                /\ UNCHANGED res
           ELSE /\ pc' = [pc EXCEPT ![t] = "load"]
                /\ frame' = [frame EXCEPT ![t].tries = Min(@ + 1, plan.tries)]
                /\ UNCHANGED <<next_free, res, held, stats>>
    /\ UNCHANGED <<fixed, mem>>

\* ----------------------------------- bump_alloc_zeroed, alloc_val, new_in
\* The values a caller may place: size bytes each.
Values(size) == [1..size -> Bytes]

\* The types of the values placed, by size and alignment: (), u8, [u16; 0]
\* and u16.
Aligns == {1, 2}
Types == {ty \in [size : 0..2, align : Aligns] : ty.size \in {0, ty.align}}

\* Layout::new::<T>() for a value of type T.
LayoutOf(ty) == Layout(ty.size, ty.align)

bump_alloc_zeroed_call(t, size) ==
    /\ Enter(t, "bump_alloc_zeroed", Layout(size, 1), 0, NoVal, 0)
    /\ pc' = [pc EXCEPT ![t] = "load"]
    /\ UNCHANGED <<fixed, next_free, mem, res, held>>

\* alloc_val(value): the layout asked for is that of the value's type.
alloc_val_call(t, ty, val) ==
    /\ val \in Values(ty.size)
    /\ Enter(t, "alloc_val", LayoutOf(ty), 0, val, 0)
    /\ pc' = [pc EXCEPT ![t] = "load"]
    /\ UNCHANGED <<fixed, next_free, mem, res, held>>

\* Box::new_in(value, alloc) calls alloc.alloc_val(value).
new_in_call(t, ty, val) ==
    /\ val \in Values(ty.size)
    /\ Enter(t, "new_in", LayoutOf(ty), 0, val, 0)
    /\ pc' = [pc EXCEPT ![t] = "load"]
    /\ UNCHANGED <<fixed, next_free, mem, res, held>>

\* bump_alloc(layout) with the layout of a type: a size and the alignment
\* that goes with it.
bump_alloc_layout(t, layout) ==
    /\ Enter(t, "bump_alloc", layout, 0, NoVal, 0)
    /\ pc' = [pc EXCEPT ![t] = "load"]
    /\ UNCHANGED <<fixed, next_free, mem, res, held>>

ZeroFill_short(m, off, size) ==
    [o \in DOMAIN m |-> IF o \in RangeBytes(off, size - 1) THEN 0 ELSE m[o]]

\* thin.write_bytes(0, size): size zero bytes from offset off on.
ZeroFill(m, off, size) ==
    [o \in DOMAIN m |-> IF o \in RangeBytes(off, size) THEN 0 ELSE m[o]]

\* ptr::write(thin, value): the bytes of the value, from offset off on.
WriteVal(m, off, val) ==
    [o \in DOMAIN m |->
        IF o \in RangeBytes(off, Len(val)) THEN val[o - off + 1] ELSE m[o]]

\* Reading the value of size bytes that lies at an address (*ptr).
ReadVal(m, ptr, size) == [i \in 1..size |-> m[OffsetOf(ptr) + i - 1]]

\* The handle Box(value_ref) and what it dereferences to.
BoxOf(ptr, size) == [ptr |-> ptr, size |-> size]
Deref(m, b) == ReadVal(m, b.ptr, b.size)

\* The wrapper returns Ok; val records the value placed or, for a zero
\* fill, the bytes it replaced.
WrapperReturn(t, val) ==
    /\ pc' = [pc EXCEPT ![t] = "idle"]
    /\ frame' = [frame EXCEPT ![t] = NoFrame]
    /\ res' = [res EXCEPT ![t] =
                  [op |-> frame[t].op, kind |-> "ok", ptr |-> frame[t].ptr,
                   size |-> frame[t].size, cur |-> frame[t].cur, cas |-> "ok",
                   val |-> val, id |-> frame[t].id]]

\* Lines 17-23: zero the range bump_alloc returned, then return it.
bump_alloc_zeroed_fill(t) ==
    /\ pc[t] = "zero"
    /\ mem' = ZeroFill(mem, OffsetOf(frame[t].ptr), frame[t].size)
    /\ WrapperReturn(t, ReadVal(mem, frame[t].ptr, frame[t].size))
    /\ UNCHANGED <<fixed, next_free, held, stats>>

\* thin is not aligned for T: bump_alloc rounds nothing, so the address is
\* whatever the cursor was.
Misaligned(ptr, align) == ptr % align # 0

\* Lines 29-31 (and boxed.rs line 17): write the value into the range
\* bump_alloc returned, and return the reference (the handle) to it.
\* ptr::write and &mut *thin on a misaligned pointer are undefined
\* behaviour: the build either stores the bytes all the same (no check, a
\* target that allows unaligned stores) or stops the thread there (the
\* precondition check of a debug build, an alignment trap).
alloc_val_write(t) ==
    /\ pc[t] = "write"
    /\ \/ /\ mem' = WriteVal(mem, OffsetOf(frame[t].ptr), frame[t].val)
          /\ WrapperReturn(t, frame[t].val)
       \/ /\ Misaligned(frame[t].ptr, frame[t].align)
          /\ pc' = [pc EXCEPT ![t] = "panicked"]
          /\ res' = [res EXCEPT ![t] =
                        [op |-> frame[t].op, kind |-> "panic", ptr |-> frame[t].ptr,
                         size |-> frame[t].size, cur |-> frame[t].cur, cas |-> "ok",
                         val |-> frame[t].val, id |-> frame[t].id]]
          /\ UNCHANGED <<mem, frame>>
    /\ UNCHANGED <<fixed, next_free, held, stats>>

\* The owner of a range writes into it (as alloc_basic does through
\* as_mut_ptr().write).
owner_write(t, i, val) ==
    /\ i \in 1..Len(held[t])
    /\ Len(val) = held[t][i].size
    /\ Len(val) >= 1
    /\ pc[t] = "idle"
    /\ stats' = [stats EXCEPT ![t].calls = Bump(@)]
    /\ mem' = WriteVal(mem, held[t][i].off, val)
    /\ UNCHANGED <<pc, frame>>
    /\ res' = [res EXCEPT ![t] =
                  [op |-> "write", kind |-> "unit", ptr |-> PtrAdd(held[t][i].off),
                   size |-> Len(val), cur |-> 0, cas |-> "none", val |-> val,
                   id |-> held[t][i].id]]
    /\ UNCHANGED <<fixed, next_free, held>>

\* --------------------------------------------------------------- dealloc
\* The caller hands one of its ranges back, with the pointer and the size it
\* was issued; from here on the range is no longer the caller's.
RemoveAt(s, i) == [j \in 1..(Len(s) - 1) |-> IF j < i THEN s[j] ELSE s[j + 1]]

dealloc_call(t, i) ==
    /\ i \in 1..Len(held[t])
    /\ Enter(t, "dealloc", Layout(held[t][i].size, 1), PtrAdd(held[t][i].off), NoVal,
             held[t][i].id)
    /\ held' = [held EXCEPT ![t] = RemoveAt(@, i)]
    /\ pc' = [pc EXCEPT ![t] = "dload"]
    /\ UNCHANGED <<fixed, next_free, mem, res>>

\* dealloc is a safe fn of the trait: a caller may pass it any non-null
\* address and any layout.  The addresses tried are those of the storage, one
\* below and one past its end.
Addrs == {PtrAdd(o) : o \in (0 - 1)..MaxCap}

\* The place in the caller's list of the range (ptr, size), the latest
\* issued if it was issued more than once; 0 when the caller owns no such
\* range.
HeldAt(t, ptr, size) ==
    LET at == {i \in 1..Len(held[t]) :
                  PtrAdd(held[t][i].off) = ptr /\ held[t][i].size = size}
    IN  IF at = {} THEN 0
        ELSE CHOOSE i \in at : \A j \in at : held[t][j].id <= held[t][i].id

\* dealloc(data, layout) with arguments of the caller's choice; a range the
\* caller owns is no longer its own once passed.
dealloc_any(t, ptr, size) ==
    /\ LET i == HeldAt(t, ptr, size)
       IN  IF i = 0
           THEN /\ Enter(t, "dealloc", Layout(size, 1), ptr, NoVal, 0)
                /\ UNCHANGED held
           ELSE /\ Enter(t, "dealloc", Layout(size, 1), ptr, NoVal, held[t][i].id)
                /\ held' = [held EXCEPT ![t] = RemoveAt(@, i)]
    /\ pc' = [pc EXCEPT ![t] = "dload"]
    /\ UNCHANGED <<fixed, next_free, mem, res>>

DeallocTarget_reset(cur, size) == 0

\* Line 73: the cursor value a reclaim of size bytes would restore.
DeallocTarget(cur, size) == cur - size

IsTail_never(cur, size, ptr) == FALSE

IsTail_any(cur, size, ptr) == TRUE

\* Line 76: the freed range ends exactly at the loaded cursor.
IsTail(cur, size, ptr) == PtrAdd(DeallocTarget(cur, size)) = ptr

DeallocTooLarge_never(size, cur) == FALSE

\* Line 70: more bytes than the cursor counts cannot be handed back.
DeallocTooLarge(size, cur) == size > cur

DeallocReturn(t, cur, cas) ==
    /\ pc' = [pc EXCEPT ![t] = "idle"]
    /\ frame' = [frame EXCEPT ![t] = NoFrame]
    /\ res' = [res EXCEPT ![t] =
                  [op |-> "dealloc", kind |-> "unit", ptr |-> frame[t].ptr,
                   size |-> frame[t].size, cur |-> cur, cas |-> cas, val |-> NoVal,
                   id |-> frame[t].id]]

\* Lines 69-76: load the cursor, give up when the size exceeds it or the
\* range is not the one that ends at it.
dealloc_load(t) ==
    /\ pc[t] = "dload"
    /\ LET cur == next_free
           f == frame[t]
       IN  IF DeallocTooLarge(f.size, cur)
           THEN DeallocReturn(t, cur, "none")
           ELSE IF IsTail(cur, f.size, f.ptr)
                THEN /\ pc' = [pc EXCEPT ![t] = "dcas"]
                     /\ frame' = [frame EXCEPT ![t].cur = cur]
                     /\ UNCHANGED res
                ELSE DeallocReturn(t, cur, "none")
    /\ UNCHANGED <<fixed, next_free, mem, held, stats>>

AfterDeallocCas_retry(won) == IF won THEN "idle" ELSE "dload"

\* Where a dealloc stands after its compare_exchange: it returns whatever
\* the outcome (the result of line 78 is discarded).
AfterDeallocCas(won) == "idle"

\* Lines 78-80: the single compare_exchange of dealloc.
dealloc_cas(t) ==
    /\ pc[t] = "dcas"
    /\ LET f == frame[t]
           won == CompareExchangeOk(next_free, f.cur)
       IN  /\ next_free' = IF won THEN DeallocTarget(f.cur, f.size) ELSE next_free
           /\ IF AfterDeallocCas(won) = "idle"
              THEN DeallocReturn(t, f.cur, IF won THEN "ok" ELSE "fail")
              ELSE /\ pc' = [pc EXCEPT ![t] = AfterDeallocCas(won)]
                   /\ UNCHANGED <<frame, res>>
    /\ UNCHANGED <<fixed, mem, held, stats>>

\* ------------------------------------------------------------------- Box
\* The handles of boxed.rs.  A handle is the reference it wraps: an address
\* and the size of what it points to.  The values boxed here are the arrays
\* [u8; N], so a length in elements is a size in bytes, and a slice handle
\* carries its length next to the address.
BoxTypes == [size : 0..MaxLen, align : {1}]

\* The forms a handle takes: Box<[u8; N]>, Box<[u8]>, the raw addresses of
\* both, Pin<Box<..>>, the leaked reference, the value moved out, and
\* nothing once it was dropped.
BoxOps == {"drop", "into_inner", "leak", "into_raw", "from_raw", "pin",
           "slice_from", "try_from"}

\* The form of the handle the last call of a thread returned.
FormOf(r) ==
    IF r.op = "new_in" /\ r.kind = "ok" THEN "box"
    ELSE IF r.op \in BoxOps THEN r.kind
    ELSE "none"

\* The handle itself.
HandleOf(r) == BoxOf(r.ptr, r.size)

\* Box has no Drop impl and wraps a plain reference: dropping it runs no
\* code, and the cursor stays what it is.
DropGlue_reclaim(cur, b) == IF cur >= b.size THEN cur - b.size ELSE cur

DropGlue(cur, b) == cur

\* Box::into_raw: the address the handle wraps, metadata included; the
\* handle is wrapped in ManuallyDrop, so nothing else happens.
IntoRaw(b) == [ptr |-> b.ptr, size |-> b.size]

FromRaw_next(raw) == BoxOf(raw.ptr + 1, raw.size)

\* Box::from_raw: Self(&mut *ptr).
FromRaw(raw) == BoxOf(raw.ptr, raw.size)

\* Box::leak: &mut *Self::into_raw(b).
Leak(b) == FromRaw(IntoRaw(b))

\* Box::into_inner: ptr::read(Self::into_raw(b)).
IntoInner(m, b) == ReadVal(m, IntoRaw(b).ptr, IntoRaw(b).size)

\* From<Box<T>> for Pin<Box<T>>: Pin::new_unchecked(boxed).
PinFrom(b) == b

\* From<Box<[T; N]>> for Box<[T]>:
\* from_raw(slice_from_raw_parts_mut(arr.as_mut_ptr(), N)).
SliceFrom(arr, n) == FromRaw([ptr |-> arr.ptr, size |-> n])

ArrayTryFrom_cast(slice, n) == [ok |-> TRUE, box |-> FromRaw([ptr |-> slice.ptr, size |-> n])]

\* TryFrom<Box<[T]>> for Box<[T; N]>: the cast when the length is N, and
\* the slice handle back otherwise.
ArrayTryFrom(slice, n) ==
    IF slice.size = n
    THEN [ok |-> TRUE, box |-> FromRaw([ptr |-> slice.ptr, size |-> n])]
    ELSE [ok |-> FALSE, box |-> slice]

\* A call on a handle returns: it takes no step on the cursor, so it is one
\* step of the calling thread.
BoxReturn(t, op, kind, b, val) ==
    /\ pc[t] = "idle"
    /\ stats' = [stats EXCEPT ![t].calls = Bump(@)]
    /\ res' = [res EXCEPT ![t] =
                  [op |-> op, kind |-> kind, ptr |-> b.ptr, size |-> b.size,
                   cur |-> 0, cas |-> "none", val |-> val, id |-> res[t].id]]
    /\ UNCHANGED <<fixed, mem, pc, frame, held>>

\* The handle goes out of scope.
Box_drop(t) ==
    /\ FormOf(res[t]) \in {"box", "slice", "pin"}
    /\ next_free' = DropGlue(next_free, HandleOf(res[t]))
    /\ BoxReturn(t, "drop", "none", HandleOf(res[t]), NoVal)

Box_into_inner(t) ==
    /\ FormOf(res[t]) = "box"
    /\ BoxReturn(t, "into_inner", "value", HandleOf(res[t]), IntoInner(mem, HandleOf(res[t])))
    /\ UNCHANGED next_free

Box_leak(t) ==
    /\ FormOf(res[t]) \in {"box", "slice"}
    /\ BoxReturn(t, "leak", "ref", Leak(HandleOf(res[t])), NoVal)
    /\ UNCHANGED next_free

\* The raw address remembers which handle it came from, as its type does.
RawOf(form) == IF form = "slice" THEN "rawslice" ELSE "raw"
BoxOfRaw(form) == IF form = "rawslice" THEN "slice" ELSE "box"

Box_into_raw(t) ==
    /\ FormOf(res[t]) \in {"box", "slice"}
    /\ BoxReturn(t, "into_raw", RawOf(FormOf(res[t])), IntoRaw(HandleOf(res[t])), NoVal)
    /\ UNCHANGED next_free

Box_from_raw(t) ==
    /\ FormOf(res[t]) \in {"raw", "rawslice"}
    /\ BoxReturn(t, "from_raw", BoxOfRaw(FormOf(res[t])), FromRaw(HandleOf(res[t])), NoVal)
    /\ UNCHANGED next_free

Box_pin(t) ==
    /\ FormOf(res[t]) \in {"box", "slice"}
    /\ BoxReturn(t, "pin", "pin", PinFrom(HandleOf(res[t])), NoVal)
    /\ UNCHANGED next_free

\* Box<[u8; N]> into Box<[u8]>: N is the length the array type has.
Box_slice_from(t) ==
    /\ FormOf(res[t]) = "box"
    /\ BoxReturn(t, "slice_from", "slice", SliceFrom(HandleOf(res[t]), res[t].size), NoVal)
    /\ UNCHANGED next_free

\* Box<[u8]> into Box<[u8; n]>: Ok(array handle) or Err(slice handle).
Box_try_from(t, n) ==
    /\ FormOf(res[t]) = "slice"
    /\ LET r == ArrayTryFrom(HandleOf(res[t]), n)
       IN  BoxReturn(t, "try_from", IF r.ok THEN "box" ELSE "slice", r.box, NoVal)
    /\ UNCHANGED next_free

\* ------------------------------------------------------- specifications
\* The calls all callers have started so far.
RECURSIVE CallsMade(_)
CallsMade(n) == IF n = 0 THEN 0 ELSE stats[n].calls + CallsMade(n - 1)

\* Another call may start while the callers, together, have calls left.
HasBudget == CallsMade(NThreads) < plan.calls

\* Caller t has calls of its own left.
HasBudgetEach(t) == stats[t].calls < plan.calls

\* The steps of a call in progress.
Step(t) ==
    \/ bump_alloc_load(t)
    \/ bump_alloc_cas(t)
    \/ dealloc_load(t)
    \/ dealloc_cas(t)

\* Any number of threads allocate and reclaim the ranges they own.
Next ==
    \E t \in Threads :
        \/ \E size \in Sizes : HasBudget /\ bump_alloc_call(t, size)
        \/ \E i \in 1..MaxCalls : HasBudget /\ dealloc_call(t, i)
        \/ bump_alloc_load(t)
        \/ bump_alloc_cas(t)
        \/ dealloc_load(t)
        \/ dealloc_cas(t)

Spec == Init /\ [][Next]_vars

\* Threads that only allocate: no range is ever handed back.
NextAlloc ==
    \E t \in Threads :
        \/ \E size \in Sizes : HasBudget /\ bump_alloc_call(t, size)
        \/ bump_alloc_load(t)
        \/ bump_alloc_cas(t)

SpecAlloc == Init /\ [][NextAlloc]_vars

\* N callers launched against a fresh arena, each making ceil(C / s) requests
\* of the same size s >= 1.
CeilDiv(a, b) == (a + b - 1) \div b

InitFixed ==
    /\ \E cap \in 0..MaxCap : ArenaNew(cap)
    /\ Idle
    /\ \E s \in 1..MaxFixedSize :
          /\ CeilDiv(length, s) <= MaxCalls
          /\ plan = [calls |-> CeilDiv(length, s), size |-> s, tries |-> 0]

NextFixed ==
    \E t \in Threads :
        \/ HasBudgetEach(t) /\ bump_alloc_call(t, plan.size)
        \/ bump_alloc_load(t)
        \/ bump_alloc_cas(t)

SpecFixed == InitFixed /\ [][NextFixed]_vars

\* Callers that also use the zero-filling and value-placing wrappers and
\* write into the ranges they own.
NextMem ==
    \E t \in Threads :
        \/ \E size \in Sizes : HasBudget /\ bump_alloc_zeroed_call(t, size)
        \/ \E ty \in Types : \E val \in Values(ty.size) :
              HasBudget /\ alloc_val_call(t, ty, val)
        \/ \E ty \in Types : \E val \in Values(ty.size) :
              HasBudget /\ new_in_call(t, ty, val)
        \/ \E i \in 1..MemCalls : \E size \in Sizes : \E val \in Values(size) :
              HasBudget /\ owner_write(t, i, val)
        \/ \E i \in 1..MemCalls : HasBudget /\ dealloc_call(t, i)
        \/ bump_alloc_load(t)
        \/ bump_alloc_cas(t)
        \/ bump_alloc_zeroed_fill(t)
        \/ alloc_val_write(t)
        \/ dealloc_load(t)
        \/ dealloc_cas(t)

InitMem ==
    /\ \E cap \in 0..MaxCap : ArenaNew(cap)
    /\ Idle
    /\ plan = [calls |-> MemCalls, size |-> 0, tries |-> 0]

SpecMem == InitMem /\ [][NextMem]_vars

\* One caller alone, making its calls one after the other.
Main == 1

InitSeq ==
    /\ \E cap \in 0..MaxCap : ArenaNew(cap)
    /\ Idle
    /\ plan = [calls |-> SeqCalls, size |-> 0, tries |-> 0]

NextSeq ==
    \/ \E size \in 0..MaxSeqSize : HasBudget /\ bump_alloc_call(Main, size)
    \/ \E i \in 1..SeqCalls : HasBudget /\ dealloc_call(Main, i)
    \/ bump_alloc_load(Main)
    \/ bump_alloc_cas(Main)
    \/ dealloc_load(Main)
    \/ dealloc_cas(Main)

SpecSeq == InitSeq /\ [][NextSeq]_vars

\* Callers that never stop: each holds at most MaxHeld ranges at a time and
\* the bookkeeping counts nothing (plan.calls = 0).  A thread that is inside
\* a call keeps being scheduled.
InitLive ==
    /\ \E cap \in 0..MaxCap : ArenaNew(cap)
    /\ Idle
    /\ plan = [calls |-> 0, size |-> 0, tries |-> 0]

NextLive ==
    \E t \in Threads :
        \/ \E size \in Sizes : Len(held[t]) < MaxHeld /\ bump_alloc_call(t, size)
        \/ \E i \in 1..MaxHeld : dealloc_call(t, i)
        \/ bump_alloc_load(t)
        \/ bump_alloc_cas(t)
        \/ dealloc_load(t)
        \/ dealloc_cas(t)

SpecLive == InitLive /\ [][NextLive]_vars /\ \A t \in Threads : WF_vars(Step(t))

\* One caller that boxes arrays, passes the handles through the calls of
\* boxed.rs and hands ranges back.
InitBox ==
    /\ \E cap \in 0..MaxCap : ArenaNew(cap)
    /\ Idle
    /\ plan = [calls |-> BoxCalls, size |-> 0, tries |-> 0]

NextBox ==
    \/ \E ty \in BoxTypes : \E val \in Values(ty.size) :
          HasBudget /\ new_in_call(Main, ty, val)
    \/ \E i \in 1..BoxCalls : HasBudget /\ dealloc_call(Main, i)
    \/ HasBudget /\ Box_drop(Main)
    \/ HasBudget /\ Box_into_inner(Main)
    \/ HasBudget /\ Box_leak(Main)
    \/ HasBudget /\ Box_into_raw(Main)
    \/ HasBudget /\ Box_from_raw(Main)
    \/ HasBudget /\ Box_pin(Main)
    \/ HasBudget /\ Box_slice_from(Main)
    \/ \E n \in 0..MaxLen : HasBudget /\ Box_try_from(Main, n)
    \/ bump_alloc_load(Main)
    \/ bump_alloc_cas(Main)
    \/ alloc_val_write(Main)
    \/ dealloc_load(Main)
    \/ dealloc_cas(Main)

SpecBox == InitBox /\ [][NextBox]_vars

\* One caller that passes dealloc whatever address and size it likes.
InitAny ==
    /\ \E cap \in 0..MaxCap : ArenaNew(cap)
    /\ Idle
    /\ plan = [calls |-> AnyCalls, size |-> 0, tries |-> 0]

NextAny ==
    \/ \E size \in 0..MaxSeqSize : HasBudget /\ bump_alloc_call(Main, size)
    \/ \E ptr \in Addrs : \E size \in 0..MaxCap : HasBudget /\ dealloc_any(Main, ptr, size)
    \/ bump_alloc_load(Main)
    \/ bump_alloc_cas(Main)
    \/ dealloc_load(Main)
    \/ dealloc_cas(Main)

SpecAny == InitAny /\ [][NextAny]_vars

\* Any number of threads, each passing dealloc whatever address and size it
\* likes.
NextAnyPar ==
    \E t \in Threads :
        \/ \E size \in Sizes : HasBudget /\ bump_alloc_call(t, size)
        \/ \E ptr \in Addrs : \E size \in 0..MaxCap : HasBudget /\ dealloc_any(t, ptr, size)
        \/ bump_alloc_load(t)
        \/ bump_alloc_cas(t)
        \/ dealloc_load(t)
        \/ dealloc_cas(t)

InitAnyPar ==
    /\ \E cap \in 0..MaxCap : ArenaNew(cap)
    /\ Idle
    /\ plan = [calls |-> AnyParCalls, size |-> 0, tries |-> 0]

SpecAnyPar == InitAnyPar /\ [][NextAnyPar]_vars

\* One caller asking for ranges with the layouts of (), u8, [u16; 0] and
\* u16, and handing ranges back.
NextAlign ==
    \/ \E ty \in Types : HasBudget /\ bump_alloc_layout(Main, LayoutOf(ty))
    \/ \E i \in 1..SeqCalls : HasBudget /\ dealloc_call(Main, i)
    \/ bump_alloc_load(Main)
    \/ bump_alloc_cas(Main)
    \/ dealloc_load(Main)
    \/ dealloc_cas(Main)

SpecAlign == InitSeq /\ [][NextAlign]_vars

\* One caller launched to issue k ranges of at least one byte each, after
\* an earlier range it keeps (pre bytes, none when pre = 0), and then to hand
\* each of the k back once, in an order fixed beforehand.
Perms(k) == {f \in [1..k -> 1..k] : \A i, j \in 1..k : f[i] = f[j] => i = j}

RECURSIVE SumSeq(_)
SumSeq(q) == IF q = <<>> THEN 0 ELSE Head(q) + SumSeq(Tail(q))

\* The calls the plan starts with: the one issuing the range that is kept.
PreCalls == IF plan.pre > 0 THEN 1 ELSE 0

\* Room for MaxRanges ranges after a kept one.
OrderCap == MaxCap + 1

InitOrder ==
    /\ \E cap \in 0..OrderCap : ArenaNew(cap)
    /\ Idle
    /\ \E k \in 1..MaxRanges : \E pre \in 0..MaxSeqSize :
       \E sizes \in [1..k -> 1..MaxSeqSize] : \E order \in Perms(k) :
          /\ pre + SumSeq(sizes) <= length
          /\ plan = [calls |-> (IF pre > 0 THEN 1 ELSE 0) + 2 * k, size |-> 0,
                     tries |-> 0, pre |-> pre, sizes |-> sizes, order |-> order]

\* The place in the caller's list of the range issued with this id.
HeldIndexOf(t, id) == CHOOSE i \in 1..Len(held[t]) : held[t][i].id = id

\* The next call of the plan: the allocations first, then the deallocs.
order_call(t) ==
    LET n == stats[t].calls
        k == Len(plan.sizes)
    IN  /\ pc[t] = "idle"
        /\ n < plan.calls
        /\ IF n < PreCalls
           THEN bump_alloc_call(t, plan.pre)
           ELSE IF n < PreCalls + k
                THEN bump_alloc_call(t, plan.sizes[n - PreCalls + 1])
                ELSE dealloc_call(t, HeldIndexOf(t, PreCalls + plan.order[n - PreCalls - k + 1]))

NextOrder ==
    \/ order_call(Main)
    \/ bump_alloc_load(Main)
    \/ bump_alloc_cas(Main)
    \/ dealloc_load(Main)
    \/ dealloc_cas(Main)

SpecOrder == InitOrder /\ [][NextOrder]_vars

\* The same callers, scheduled in any way at all.
SpecForever == InitLive /\ [][NextLive]_vars

\* The same callers, the failed attempts of each call counted.
InitRetry ==
    /\ \E cap \in 0..MaxCap : ArenaNew(cap)
    /\ Idle
    /\ plan = [calls |-> 0, size |-> 0, tries |-> MaxTries]

SpecRetry == InitRetry /\ [][NextLive]_vars

TypeOK ==
    /\ length \in 0..MaxCap
    /\ next_free \in 0..length
    /\ \A t \in Threads : pc[t] \in {"idle", "load", "cas", "dload", "dcas", "zero", "write", "panicked"}

\* ---------------------------------------------------------------- claims
\* The ranges the callers own: (thread, position in its list).
Outstanding == UNION {{<<t, i>> : i \in 1..Len(held[t])} : t \in Threads}
RangeOf(p) == held[p[1]][p[2]]
BytesOf(p) == RangeBytes(RangeOf(p).off, RangeOf(p).size)

RECURSIVE SumSizes(_)
SumSizes(s) == IF s = <<>> THEN 0 ELSE Head(s).size + SumSizes(Tail(s))

RECURSIVE SumHeld(_)
SumHeld(n) == IF n = 0 THEN 0 ELSE SumSizes(held[n]) + SumHeld(n - 1)

PairwiseDisjoint ==
    \A p, q \in Outstanding : p # q => BytesOf(p) \cap BytesOf(q) = {}

\* C1: with bump_alloc calls only, the ranges returned by the successful
\* calls share no byte and their sizes add up to at most the capacity.
C1_NonOverlapping ==
    /\ PairwiseDisjoint
    /\ SumHeld(NThreads) <= length

\* Two threads were each issued a range of at least one byte, and a third
\* request found the arena too full.
C1_Witness ==
    \E t, u \in Threads :
        /\ t # u
        /\ \E i \in 1..Len(held[t]) : held[t][i].size >= 1
        /\ \E j \in 1..Len(held[u]) : held[u][j].size >= 1
        /\ res[t].kind = "oom"

\* C2: when every caller hands back only ranges it was issued, each once,
\* the ranges still owned share no byte and lie below the cursor.
C2_ExclusiveOwnership ==
    /\ PairwiseDisjoint
    /\ \A p \in Outstanding : BytesOf(p) \subseteq 0..(next_free - 1)

\* A reclaim lowered the cursor, the bytes were issued again to the same
\* caller, and another caller owns a range at the same time.
C2_Witness ==
    \E t, u \in Threads :
        /\ t # u
        /\ stats[t].ok >= 2
        /\ \E i \in 1..Len(held[t]) : held[t][i].size >= 1 /\ held[t][i].id >= 2
        /\ \E j \in 1..Len(held[u]) : held[u][j].size >= 1

RECURSIVE SumStat(_, _)
SumStat(k, n) == IF n = 0 THEN 0 ELSE stats[n][k] + SumStat(k, n - 1)

AllDone == \A t \in Threads : pc[t] = "idle" /\ stats[t].calls = plan.calls

\* C3: once N callers have each made their ceil(C / s) requests of size s,
\* exactly floor(C / s) requests succeeded, all the others failed with OOM,
\* and the ranges issued share no byte.
C3_FixedSizeCounts ==
    AllDone =>
        /\ SumStat("ok", NThreads) = length \div plan.size
        /\ SumStat("oom", NThreads) = NThreads * plan.calls - length \div plan.size
        /\ PairwiseDisjoint

\* All callers are done, the size does not divide the capacity, and both
\* a success and a failure happened.
C3_Witness ==
    /\ AllDone
    /\ length % plan.size # 0
    /\ SumStat("ok", NThreads) >= 1
    /\ SumStat("oom", NThreads) >= 2
    /\ \E t \in Threads : stats[t].ok = 0

IsAlloc(op) == op \in {"bump_alloc", "bump_alloc_zeroed", "alloc_val", "new_in"}

\* C4: a bump_alloc returns OOM exactly when, at the cursor value it loaded,
\* the size exceeds length - cursor, and then leaves the cursor alone;
\* otherwise it goes on to its compare-and-swap, which issues the range when
\* the cursor still has the loaded value.
C4_OomExactly ==
    [][\A t \in Threads :
          /\ (pc[t] = "load" /\ pc'[t] # "load") =>
                IF frame[t].size > length - next_free
                THEN /\ pc'[t] = "idle"
                     /\ res'[t].kind = "oom"
                     /\ next_free' = next_free
                ELSE /\ pc'[t] = "cas"
                     /\ res'[t] = res[t]
          /\ (pc[t] = "cas" /\ pc'[t] # "cas" /\ next_free = frame[t].cur) =>
                /\ frame[t].size <= length - frame[t].cur
                /\ next_free' = next_free + frame[t].size
                /\ pc'[t] = "idle" => res'[t].kind = "ok"
          /\ (IsAlloc(res'[t].op) /\ res'[t].kind = "oom") =>
                res'[t].size > length - res'[t].cur
          /\ (IsAlloc(res'[t].op) /\ res'[t].kind = "ok") =>
                res'[t].size <= length - res'[t].cur
      ]_vars

\* A request equal to the remaining capacity was granted and filled the
\* arena, and the same caller's next request, of one byte, failed with OOM.
C4_Witness ==
    \E t \in Threads :
        /\ length = MaxCap
        /\ next_free = length
        /\ res[t].kind = "oom" /\ res[t].size = 1 /\ res[t].cur = length
        /\ \E i \in 1..Len(held[t]) :
              /\ held[t][i].size >= 1
              /\ held[t][i].off + held[t][i].size = length
              /\ held[t][i].id >= 2

\* C5: bump_alloc is wait-free: a thread that has entered bump_alloc and
\* keeps being scheduled eventually returns from it, whatever the other
\* threads do to the cursor meanwhile.
C5_WaitFree ==
    \A t \in Threads : (pc[t] \in {"load", "cas"}) ~> (pc[t] = "idle")

\* The call of t that is in progress returns in this step.
Returns(t) == pc[t] # "idle" /\ pc'[t] = "idle"

\* The range t is handing back is the one issued by the latest successful
\* bump_alloc.
FreesLatest(f, t) == f.op = "dealloc" /\ f.id = stats[t].ok

\* C6 as stated: one caller alone; handing back the most recently issued
\* range puts the cursor back where it was before that range was issued,
\* size bytes lower, and a bump_alloc of the same size that follows is
\* granted the same range.
C6_TailReclaim_AnySize ==
    [][/\ (Returns(Main) /\ FreesLatest(frame[Main], Main)) =>
            /\ next_free' = OffsetOf(frame[Main].ptr)
            /\ res'[Main].cur - next_free' = frame[Main].size
       /\ (Returns(Main) /\ frame[Main].op = "bump_alloc"
              /\ FreesLatest(res[Main], Main) /\ frame[Main].size = res[Main].size) =>
            /\ res'[Main].kind = "ok"
            /\ res'[Main].ptr = res[Main].ptr
      ]_vars

\* C6, amended: the same, for a most recently issued range of at least one
\* byte.
C6_TailReclaim ==
    [][/\ (Returns(Main) /\ FreesLatest(frame[Main], Main) /\ frame[Main].size >= 1) =>
            /\ next_free' = OffsetOf(frame[Main].ptr)
            /\ res'[Main].cur - next_free' = frame[Main].size
       /\ (Returns(Main) /\ frame[Main].op = "bump_alloc"
              /\ FreesLatest(res[Main], Main) /\ res[Main].size >= 1
              /\ frame[Main].size = res[Main].size) =>
            /\ res'[Main].kind = "ok"
            /\ res'[Main].ptr = res[Main].ptr
      ]_vars

\* A range of at least one byte was issued a second time: it was handed
\* back as the latest issued range and the next request, of its size, got it.
C6_Witness ==
    /\ res[Main].op = "bump_alloc" /\ res[Main].kind = "ok"
    /\ res[Main].size >= 1 /\ res[Main].id >= 3
    /\ OffsetOf(res[Main].ptr) >= 1
    /\ Len(held[Main]) = 2

\* A range the caller still owns was issued after the range f is about.
LaterRange(f, t) == \E j \in 1..Len(held[t]) : held[t][j].id > f.id

\* The same, the later range holding at least one byte.
LaterBytes(f, t) ==
    \E j \in 1..Len(held[t]) : held[t][j].id > f.id /\ held[t][j].size >= 1

\* Caller t takes a step of the dealloc it is in.
DeallocStep(t) == pc[t] \in {"dload", "dcas"} /\ pc'[t] # pc[t]

\* C7 as stated: one caller alone; handing back a range of at least one
\* byte while a range issued after it is still owned leaves the cursor
\* alone, and with the arena full a request of the freed size that follows
\* fails with OOM.
C7_NonTailNoop_AnyLater ==
    [][/\ (DeallocStep(Main) /\ frame[Main].size >= 1 /\ LaterRange(frame[Main], Main)) =>
            next_free' = next_free
       /\ (pc[Main] = "load" /\ pc'[Main] # "load" /\ res[Main].op = "dealloc"
              /\ res[Main].size >= 1 /\ LaterRange(res[Main], Main)
              /\ res[Main].cur = length /\ frame[Main].size = res[Main].size) =>
            res'[Main].kind = "oom"
      ]_vars

\* C7, amended: the same, when the range issued later and still owned holds
\* at least one byte.
C7_NonTailNoop ==
    [][/\ (DeallocStep(Main) /\ frame[Main].size >= 1 /\ LaterBytes(frame[Main], Main)) =>
            next_free' = next_free
       /\ (pc[Main] = "load" /\ pc'[Main] # "load" /\ res[Main].op = "dealloc"
              /\ res[Main].size >= 1 /\ LaterBytes(res[Main], Main)
              /\ res[Main].cur = length /\ frame[Main].size = res[Main].size) =>
            res'[Main].kind = "oom"
      ]_vars

\* Two ranges of at least one byte filled the arena, the first was handed
\* back while the second was owned, and the request that followed failed.
C7_Witness ==
    /\ res[Main].kind = "oom" /\ res[Main].size >= 1
    /\ next_free = length
    /\ stats[Main].ok = 2
    /\ Len(held[Main]) = 1
    /\ held[Main][1].id = 2 /\ held[Main][1].size >= 1 /\ held[Main][1].off >= 1

\* C8: a dealloc makes at most one compare-and-swap and then returns, with
\* no error; when the cursor is no longer the value it loaded the swap
\* changes nothing, and when it still is the cursor drops by the size.
C8_SingleAttempt ==
    [][\A t \in Threads :
          /\ (pc[t] = "dload" /\ pc'[t] # "dload") =>
                /\ pc'[t] \in {"idle", "dcas"}
                /\ next_free' = next_free
          /\ (pc[t] = "dcas" /\ pc'[t] # "dcas") =>
                /\ pc'[t] = "idle"
                /\ next_free' = IF next_free = frame[t].cur
                                 THEN frame[t].cur - frame[t].size
                                 ELSE next_free
          /\ res'[t].op = "dealloc" => res'[t].kind = "unit"
      ]_vars

\* A dealloc lost the race: its compare-and-swap failed.
C8_Witness ==
    \E t \in Threads : res[t].op = "dealloc" /\ res[t].cas = "fail" /\ res[t].size >= 1

\* Caller t takes a step of the call op it is in.
CallStep(t, ops) == frame[t].op \in ops /\ pc'[t] # pc[t]

\* What a wrapper's inner bump_alloc does in a step: OOM exactly when the
\* size exceeds length - cursor, nothing written, the cursor raised by the
\* size by the winning compare-and-swap and by nothing else.
InnerBumpAlloc(t, next) ==
    /\ pc[t] = "load" =>
          /\ mem' = mem /\ next_free' = next_free
          /\ IF frame[t].size > length - next_free
             THEN pc'[t] = "idle" /\ res'[t].kind = "oom"
             ELSE pc'[t] = "cas"
    /\ pc[t] = "cas" =>
          /\ mem' = mem
          /\ IF next_free = frame[t].cur
             THEN next_free' = next_free + frame[t].size /\ pc'[t] = next
             ELSE next_free' = next_free /\ pc'[t] = "load"

\* C9: a successful bump_alloc_zeroed returns a range whose bytes are all
\* zero, whatever they held before, and they stay zero while the caller
\* makes no other call; the call moves the cursor as bump_alloc does, writes
\* no byte outside the range, and writes nothing when it fails with OOM.
C9_ZeroedRange ==
    [][\A t \in Threads :
          /\ (pc'[t] = "idle" /\ res'[t].op = "bump_alloc_zeroed" /\ res'[t].kind = "ok") =>
                \A o \in RangeBytes(OffsetOf(res'[t].ptr), res'[t].size) : mem'[o] = 0
          /\ CallStep(t, {"bump_alloc_zeroed"}) =>
                /\ InnerBumpAlloc(t, "zero")
                /\ pc[t] = "zero" =>
                      /\ next_free' = next_free
                      /\ res'[t].kind = "ok"
                      /\ \A o \in DOMAIN mem :
                            o \notin RangeBytes(OffsetOf(frame[t].ptr), frame[t].size)
                                => mem'[o] = mem[o]
      ]_vars

\* A zero-filled range was returned whose bytes an earlier owner had left
\* non-zero.
C9_Witness ==
    \E t \in Threads :
        /\ pc[t] = "idle"
        /\ res[t].op = "bump_alloc_zeroed" /\ res[t].kind = "ok"
        /\ \E i \in 1..res[t].size : res[t].val[i] # 0

\* C10: alloc_val and Box::new_in fail with OOM exactly when the size of
\* the value exceeds length - cursor, leaving cursor and bytes alone;
\* otherwise the cursor rises by that size and the reference (the handle)
\* returned reads back the value placed, for as long as the caller makes no
\* other call.
C10_PlacedValue ==
    [][\A t \in Threads :
          /\ (pc'[t] = "idle" /\ res'[t].op \in {"alloc_val", "new_in"}
                 /\ res'[t].kind = "ok") =>
                /\ Deref(mem', BoxOf(res'[t].ptr, res'[t].size)) = res'[t].val
                /\ res'[t].size = Len(res'[t].val)
                /\ res'[t].ptr = PtrAdd(res'[t].cur)
          /\ CallStep(t, {"alloc_val", "new_in"}) =>
                /\ InnerBumpAlloc(t, "write")
                /\ pc[t] = "write" => next_free' = next_free /\ res'[t].kind = "ok"
      ]_vars

\* Caller t makes a call on the handle it has.
BoxStep(t, ops) ==
    /\ pc[t] = "idle" /\ pc'[t] = "idle"
    /\ stats'[t].calls # stats[t].calls
    /\ res'[t].op \in ops

\* The step leaves the arena as it is: cursor, bytes, ranges issued.
ArenaUntouched ==
    /\ next_free' = next_free
    /\ mem' = mem
    /\ held' = held
    /\ \A t \in Threads : stats'[t].ok = stats[t].ok

\* C11: dropping a handle or consuming it (into_inner, leak, into_raw, the
\* pinned form, the array and slice conversions) never changes the cursor;
\* the cursor is lowered only by a step of an explicit dealloc call.
C11_HandleNoReclaim ==
    [][/\ \A t \in Threads : BoxStep(t, BoxOps) => ArenaUntouched
       /\ next_free' < next_free =>
             \E t \in Threads : pc[t] = "dcas" /\ frame[t].op = "dealloc"
      ]_vars

\* A handle to an array of at least one byte was dropped, and its bytes are
\* still issued: the cursor lies above them and the range was not handed
\* back.
C11_Witness ==
    /\ res[Main].op = "drop"
    /\ res[Main].size >= 1
    /\ next_free >= OffsetOf(res[Main].ptr) + res[Main].size
    /\ \E i \in 1..Len(held[Main]) :
          /\ PtrAdd(held[Main][i].off) = res[Main].ptr
          /\ held[Main][i].id = res[Main].id

\* C12: Box::from_raw(Box::into_raw(b)) is a handle with the address and the
\* contained value of b, for every handle b, and neither call changes the
\* arena.
C12_RawRoundTrip ==
    [][\A t \in Threads :
          /\ FormOf(res[t]) \in {"box", "slice"} =>
                LET b == HandleOf(res[t])
                    back == FromRaw(IntoRaw(b))
                IN  /\ back = b
                    /\ back.ptr = b.ptr
                    /\ Deref(mem, back) = Deref(mem, b)
          /\ BoxStep(t, {"into_raw", "from_raw"}) =>
                /\ ArenaUntouched
                /\ res'[t].ptr = res[t].ptr
                /\ res'[t].size = res[t].size
          /\ (BoxStep(t, {"from_raw"}) /\ res[t].op = "into_raw") =>
                FormOf(res'[t]) \in {"box", "slice"}
      ]_vars

\* A handle to an array holding a non-zero byte went to a raw address and
\* came back.
C12_Witness ==
    /\ res[Main].op = "from_raw"
    /\ res[Main].size >= 1
    /\ \E i \in 1..res[Main].size : Deref(mem, HandleOf(res[Main]))[i] # 0

\* C13: a handle of [T; N] converted to a slice handle and back to length N
\* comes back with its address, length and contents; a slice handle of
\* length L converted to a length M # L fails and hands the slice handle
\* back as it was; neither conversion allocates or moves the cursor.
C13_ShapeRoundTrip ==
    [][\A t \in Threads :
          /\ FormOf(res[t]) = "box" =>
                LET arr == HandleOf(res[t])
                    slice == SliceFrom(arr, arr.size)
                    back == ArrayTryFrom(slice, arr.size)
                IN  /\ slice.ptr = arr.ptr /\ slice.size = arr.size
                    /\ Deref(mem, slice) = Deref(mem, arr)
                    /\ back.ok
                    /\ back.box = arr
                    /\ Deref(mem, back.box) = Deref(mem, arr)
          /\ FormOf(res[t]) = "slice" =>
                \A n \in 0..MaxLen :
                    n # res[t].size =>
                        /\ ~ArrayTryFrom(HandleOf(res[t]), n).ok
                        /\ ArrayTryFrom(HandleOf(res[t]), n).box = HandleOf(res[t])
          /\ BoxStep(t, {"slice_from", "try_from"}) =>
                /\ ArenaUntouched
                /\ res'[t].ptr = res[t].ptr
                /\ res'[t].size = res[t].size
          /\ (BoxStep(t, {"try_from"}) /\ res'[t].kind = "slice") =>
                HandleOf(res'[t]) = HandleOf(res[t])
      ]_vars

\* An array of MaxLen bytes, not all zero, went to a slice handle and back
\* to an array handle.
C13_Witness ==
    /\ res[Main].op = "try_from" /\ res[Main].kind = "box"
    /\ res[Main].size = MaxLen
    /\ \E i \in 1..res[Main].size : Deref(mem, HandleOf(res[Main]))[i] # 0

\* The range the dealloc in frame f is about was issued to t, is the one
\* passed, and no range t still owns was issued after it.
LatestOutstanding(f, t) ==
    /\ f.id # 0
    /\ \A j \in 1..Len(held[t]) : held[t][j].id < f.id

\* C14: whatever address and size dealloc is passed, it lowers the cursor
\* only if the address at cursor - size is the address passed, and that
\* happens only when (address, size) is exactly the most recently issued
\* range still outstanding; for every other pair the cursor stays.
C14_OnlyLatestLowers ==
    [][(DeallocStep(Main) /\ next_free' # next_free) =>
            /\ next_free' = next_free - frame[Main].size
            /\ PtrAdd(next_free - frame[Main].size) = frame[Main].ptr
            /\ LatestOutstanding(frame[Main], Main)
      ]_vars

\* The threads that compete with a caller.
Competitors == NThreads - 1

\* C15: one bump_alloc call fails its compare-and-swap at most a fixed
\* multiple of K times, K the number of other threads calling bump_alloc or
\* dealloc meanwhile.
C15_BoundedRetries ==
    \A t \in Threads : frame[t].tries <= RetryFactor * Competitors

\* C16: in every reachable state 0 <= cursor <= length, whatever sizes and
\* addresses the threads pass to bump_alloc and dealloc, and length stays
\* the capacity the arena was built with; so length - cursor and
\* cursor - size are never negative where the code computes them, and
\* cursor + size never exceeds length.
C16_CursorInBounds ==
    /\ [](/\ 0 <= next_free /\ next_free <= length
          /\ length = Cardinality(DOMAIN mem)
          /\ \A t \in Threads :
                /\ pc[t] = "load" => length - next_free >= 0
                /\ pc[t] = "cas" =>
                      /\ frame[t].cur + frame[t].size <= length
                      /\ frame[t].cur >= 0
                /\ pc[t] = "dcas" => frame[t].cur - frame[t].size >= 0)
    /\ [][/\ length' = length
          /\ \A t \in Threads :
                (pc[t] = "dload" /\ pc'[t] = "dcas") => next_free - frame[t].size >= 0
         ]_vars

\* The arena holds bytes and is full, and a dealloc that was passed more
\* bytes than the cursor counted, at an address below the storage, returned
\* without effect.
C16_Witness ==
    /\ length >= 1 /\ next_free = length
    /\ \E t \in Threads :
          /\ res[t].op = "dealloc" /\ res[t].size > res[t].cur
          /\ res[t].ptr < BaseAddr

\* The compare-and-swap of t succeeds in this step.
CasWins(t, at) == pc[t] = at /\ pc'[t] # at /\ frame[t].cur = next_free

\* C17: the cursor changes only by the winning compare-and-swap of a
\* bump_alloc, which raises it by the size asked for, or of a dealloc, which
\* lowers it by the size passed; OOM returns, failed attempts, zero fills
\* and value writes leave it alone, so it never drops in a step that is not
\* a winning dealloc.
C17_CursorSteps ==
    [][/\ next_free' # next_free =>
             \E t \in Threads :
                 \/ /\ CasWins(t, "cas")
                    /\ IsAlloc(frame[t].op)
                    /\ next_free' = next_free + frame[t].size
                 \/ /\ CasWins(t, "dcas")
                    /\ frame[t].op = "dealloc"
                    /\ next_free' = next_free - frame[t].size
       /\ \A t \in Threads :
             /\ (pc[t] \in {"load", "dload", "zero", "write"} /\ pc'[t] # pc[t]) =>
                   next_free' = next_free
             /\ (pc[t] \in {"cas", "dcas"} /\ pc'[t] # pc[t] /\ frame[t].cur # next_free) =>
                   next_free' = next_free
       /\ (\A t \in Threads : ~CasWins(t, "dcas")) => next_free' >= next_free
      ]_vars

\* A dealloc lowered the cursor by at least one byte, and the range another
\* caller was issued last and had zero-filled ends at the cursor.
C17_Witness ==
    \E t, u \in Threads :
        /\ res[t].op = "dealloc" /\ res[t].cas = "ok" /\ res[t].size >= 1
        /\ res[u].op = "bump_alloc_zeroed" /\ res[u].kind = "ok" /\ res[u].size >= 1
        /\ next_free = OffsetOf(res[u].ptr) + res[u].size

\* The dealloc of the issued range (off, size) found it was not the tail and
\* returned without a compare-and-swap.
ReturnedNoEffect(off, size) ==
    \E t \in Threads :
        /\ res[t].op = "dealloc" /\ res[t].cas = "none" /\ res[t].id # 0
        /\ res[t].ptr = PtrAdd(off) /\ res[t].size = size

\* No range a caller owns shares a byte with (off, size).
NoOverlap(off, size) ==
    \A p \in Outstanding : BytesOf(p) \cap RangeBytes(off, size) = {}

\* C18: once the dealloc of an issued range of at least one byte that was
\* not the tail has returned without effect, no bump_alloc ever issues a
\* range that overlaps it, even after every range issued after it was
\* reclaimed (each range is handed back at most once, as it was issued).
C18_NonTailNeverReissued ==
    \A off \in 0..(MaxCap - 1) : \A size \in 1..MaxSize :
        [](ReturnedNoEffect(off, size) => []NoOverlap(off, size))

\* The range at offset 0 was handed back while it was not the tail, the
\* range after it was reclaimed since, and the byte after it was issued
\* again: the cursor came back down to the end of the lost range.
C18_Witness ==
    \E t, u \in Threads :
        /\ t # u
        /\ res[t].op = "dealloc" /\ res[t].cas = "none" /\ res[t].id # 0
        /\ res[t].size >= 1 /\ res[t].ptr = PtrAdd(0)
        /\ res[u].op = "dealloc" /\ res[u].cas = "ok" /\ res[u].size >= 1
        /\ res[u].ptr = PtrAdd(res[t].size)
        /\ pc[t] = "cas" /\ frame[t].cur = res[t].size
        /\ next_free = res[t].size

\* The last range in a list of ranges.
Last(s) == s[Len(s)]

\* C19: a successful bump_alloc returns the range that starts at the cursor
\* value its compare-and-swap replaced and has the size asked for, whatever
\* the alignment asked for: nothing is rounded, the next range starts where
\* this one ends, and the outcome depends on size, cursor and length only.
C19_NoRounding ==
    [][\A t \in Threads :
          /\ (pc[t] = "load" /\ pc'[t] # "load") =>
                (pc'[t] = "cas") = (frame[t].size <= length - next_free)
          /\ CasWins(t, "cas") =>
                /\ Len(held'[t]) = Len(held[t]) + 1
                /\ Last(held'[t]).off = next_free
                /\ Last(held'[t]).size = frame[t].size
                /\ next_free' = Last(held'[t]).off + Last(held'[t]).size
                /\ res'[t].kind = "ok"
                /\ res'[t].ptr = PtrAdd(next_free)
                /\ res'[t].size = frame[t].size
      ]_vars

\* A one-byte range and then a range with the layout of u16 were issued:
\* they lie at [0, 1) and [1, 3), the second at an odd address, and fill
\* the arena.
C19_Witness ==
    /\ length = 3 /\ next_free = length
    /\ Len(held[Main]) = 2
    /\ held[Main][1].off = 0 /\ held[Main][1].size = 1
    /\ held[Main][2].off = 1 /\ held[Main][2].size = 2
    /\ res[Main].kind = "ok" /\ res[Main].size = 2
    /\ Misaligned(res[Main].ptr, 2)

\* The plan hands the ranges back latest first.
ReverseOrder ==
    \A j \in 1..Len(plan.order) : plan.order[j] = Len(plan.order) - j + 1

\* Every call of the plan was made and has returned.
OrderDone == pc[Main] = "idle" /\ stats[Main].calls = plan.calls

\* C20: one caller issues k ranges of at least one byte from cursor value
\* c0 and then hands each back once: the cursor is back at c0 exactly when
\* the ranges were handed back in the reverse of the order they were
\* issued in; in every other order the cursor ends above c0, a range
\* staying lost.
C20_ReverseOrderOnly ==
    OrderDone =>
        /\ (next_free = plan.pre) <=> ReverseOrder
        /\ ~ReverseOrder => next_free > plan.pre
        /\ stats[Main].ok = PreCalls + Len(plan.sizes)
        /\ held[Main] = IF plan.pre > 0
                        THEN <<[off |-> 0, size |-> plan.pre, id |-> 1]>>
                        ELSE <<>>

\* Three ranges issued after a kept one were handed back, the third first,
\* then the first, then the second: the third and the second were
\* reclaimed, the first was not, and the cursor ends just above it.
C20_Witness ==
    /\ OrderDone
    /\ Len(plan.sizes) = 3 /\ plan.pre > 0
    /\ plan.order = <<3, 1, 2>>
    /\ next_free = plan.pre + plan.sizes[1]
====
